---------------------------- MODULE Spec2Model ----------------------------
(***************************************************************************)
(* A model of moltbook_generator.templates.MoltBookTemplate: the assembly  *)
(* of the normalised listing (_build_data) from a raw metadata mapping and *)
(* the three renderers (yaml, json, markdown); and of                      *)
(* moltbook_generator.generator.MoltBookGenerator.generate, which clones   *)
(* or resolves a source, parses it and renders its listing.                *)
(*                                                                         *)
(* Python values are modelled as follows.  A str is a TLA+ string, a list  *)
(* of str is a sequence of strings, a dict is a function whose DOMAIN is   *)
(* the set of keys that are present (an absent key is outside the DOMAIN). *)
(***************************************************************************)
EXTENDS Naturals, Sequences, FiniteSets, TLC

VARIABLES
    metadata,       \* the metadata dict passed to render
    tool_type,      \* render's tool_type argument
    keywords,       \* render's keywords argument
    output_format,  \* render's output_format argument
    author,         \* render's author argument
    license_id,     \* render's license_id argument
    repository,     \* render's repository argument
    clock,          \* the wall clock, in seconds since the model's epoch
    data,           \* the dict _build_data returned to render
    result,         \* the string render returned
    pc,             \* "ready" | "returned" | "raised", and generate's steps
    ncalls,         \* the number of render calls made on the template
    source,         \* generate's source argument
    tool_type_arg,  \* generate's tool_type argument: absent when None
    use_ai,         \* MoltBookGenerator.use_ai
    ai_reply,       \* what client.messages.create did in this generate
    cleanup,        \* generate's cleanup flag
    temp_dir,       \* the directory of mkdtemp: "none" | "exists" | "removed"
    local_dir,      \* the directory a local source names:
                    \* "none" | "exists" | "missing" | "removed"
    called          \* the method the caller invokes on the template, and
                    \* whether the call passes output_format

vars == <<metadata, tool_type, keywords, output_format, author, license_id,
          repository, clock, data, result, pc, ncalls, source, tool_type_arg,
          use_ai, ai_reply, cleanup, temp_dir, local_dir, called>>

\* What belongs to generate.
gen_vars ==
    <<source, tool_type_arg, use_ai, ai_reply, cleanup, temp_dir, local_dir>>

-----------------------------------------------------------------------------
(* Python's str and list primitives                                        *)

\* The i-th character of s (1-based), as a string of length 1.
CharAt(s, i) == SubSeq(s, i, i)

\* bool(x) for a str or a list: non-empty.
Truthy(x) == Len(x) > 0

UpperCase == "ABCDEFGHIJKLMNOPQRSTUVWXYZ"
LowerCase == "abcdefghijklmnopqrstuvwxyz"

IsUpper(c) == \E i \in 1..Len(UpperCase) : CharAt(UpperCase, i) = c
IsLower(c) == \E i \in 1..Len(LowerCase) : CharAt(LowerCase, i) = c
IsAlpha(c) == IsUpper(c) \/ IsLower(c)

LowerChar(c) ==
    IF IsUpper(c)
    THEN CharAt(LowerCase, CHOOSE i \in 1..Len(UpperCase) : CharAt(UpperCase, i) = c)
    ELSE c

UpperChar(c) ==
    IF IsLower(c)
    THEN CharAt(UpperCase, CHOOSE i \in 1..Len(LowerCase) : CharAt(LowerCase, i) = c)
    ELSE c

\* The recursions over the characters of a text split their range in two
\* halves, so that their depth is the logarithm of the text's length.

\* str.lower() of the characters lo..hi of s.
RECURSIVE LowerRange(_, _, _)
LowerRange(s, lo, hi) ==
    IF lo > hi THEN ""
    ELSE IF lo = hi THEN LowerChar(CharAt(s, lo))
    ELSE LET mid == (lo + hi) \div 2
         IN LowerRange(s, lo, mid) \o LowerRange(s, mid + 1, hi)

\* str.lower()
Lower(s) == LowerRange(s, 1, Len(s))

\* sub in s
Contains(sub, s) ==
    \E i \in 1..(Len(s) + 1) :
        /\ i + Len(sub) - 1 <= Len(s)
        /\ SubSeq(s, i, i + Len(sub) - 1) = sub

\* s.replace(old, new) for a single character old, of the characters lo..hi.
RECURSIVE ReplaceRange(_, _, _, _, _)
ReplaceRange(s, old, new, lo, hi) ==
    IF lo > hi THEN ""
    ELSE IF lo = hi THEN (IF CharAt(s, lo) = old THEN new ELSE CharAt(s, lo))
    ELSE LET mid == (lo + hi) \div 2
         IN ReplaceRange(s, old, new, lo, mid) \o ReplaceRange(s, old, new, mid + 1, hi)

\* s.replace(old, new) for a single character old.
Replace(s, old, new) == ReplaceRange(s, old, new, 1, Len(s))

\* str.title(): the first letter of every run of letters in upper case, the
\* run's other letters in lower case, every other character unchanged.
TitleChar(s, i) ==
    IF i = 1 \/ ~IsAlpha(CharAt(s, i - 1)) THEN UpperChar(CharAt(s, i))
    ELSE LowerChar(CharAt(s, i))

RECURSIVE TitleRange(_, _, _)
TitleRange(s, lo, hi) ==
    IF lo > hi THEN ""
    ELSE IF lo = hi THEN TitleChar(s, lo)
    ELSE LET mid == (lo + hi) \div 2
         IN TitleRange(s, lo, mid) \o TitleRange(s, mid + 1, hi)

Title(s) == TitleRange(s, 1, Len(s))

\* sep.join(items[lo..hi])
RECURSIVE JoinRange(_, _, _, _)
JoinRange(sep, items, lo, hi) ==
    IF lo > hi THEN ""
    ELSE IF lo = hi THEN items[lo]
    ELSE LET mid == (lo + hi) \div 2
         IN JoinRange(sep, items, lo, mid) \o sep \o JoinRange(sep, items, mid + 1, hi)

\* sep.join(items)
Join(sep, items) == JoinRange(sep, items, 1, Len(items))

\* items[:n]
Take(items, n) == SubSeq(items, 1, IF Len(items) < n THEN Len(items) ELSE n)

\* d.get(key, default)
Get(d, key, default) == IF key \in DOMAIN d THEN d[key] ELSE default

-----------------------------------------------------------------------------
(* datetime.now().strftime(...)                                            *)

Digits == "0123456789"

\* "%02d" for 0 <= n <= 99
Dec2(n) == CharAt(Digits, (n \div 10) + 1) \o CharAt(Digits, (n % 10) + 1)

\* strftime("%Y-%m-%d") of the instant t seconds after 2026-11-01 00:00:00.
StrfDate(t) == "2026-11-" \o Dec2(1 + (t \div 86400))

\* strftime("%Y-%m-%d %H:%M:%S") of the same instant.
StrfDateTime(t) ==
    StrfDate(t) \o " " \o Dec2((t % 86400) \div 3600) \o ":"
        \o Dec2((t % 3600) \div 60) \o ":" \o Dec2(t % 60)

-----------------------------------------------------------------------------
(* MoltBookTemplate helpers                                                *)

KeywordCap == 10
FeatureCap == 5

\* An installation that installs every npm package globally, whatever the
\* tool type.
_build_installation_AlwaysGlobal(md, tt) ==
    LET lang == Lower(Get(md, "language", ""))
        name == Get(md, "name", "unknown-tool")
    IN IF tt = "github-action"
       THEN "uses: " \o Get(md, "repository", "owner/repo") \o "@v1"
       ELSE IF Contains("python", lang)
       THEN "pip install " \o name
       ELSE IF Contains("javascript", lang) \/ Contains("typescript", lang)
       THEN "npm install -g " \o name
       ELSE IF Contains("rust", lang)
       THEN "cargo install " \o name
       ELSE IF Contains("go", lang)
       THEN "go install github.com/" \o name \o "@latest"
       ELSE "# See documentation for installation instructions"

\* _build_installation(metadata, tool_type)
_build_installation(md, tt) ==
    LET lang == Lower(Get(md, "language", ""))
        name == Get(md, "name", "unknown-tool")
    IN IF tt = "github-action"
       THEN "uses: " \o Get(md, "repository", "owner/repo") \o "@v1"
       ELSE IF Contains("python", lang)
       THEN "pip install " \o name
       ELSE IF Contains("javascript", lang) \/ Contains("typescript", lang)
       THEN (IF tt = "cli"
             THEN "npm install -g " \o name
             ELSE "npm install " \o name)
       ELSE IF Contains("rust", lang)
       THEN "cargo install " \o name
       ELSE IF Contains("go", lang)
       THEN "go install github.com/" \o name \o "@latest"
       ELSE "# See documentation for installation instructions"

\* cmds[0]: IndexError on an empty list.
Subscript0(cmds) ==
    IF Len(cmds) > 0 THEN [ok |-> TRUE, v |-> cmds[1]]
    ELSE [ok |-> FALSE, v |-> "IndexError"]

\* A guard that tests only that the key is present.
HasCliCommands_KeyOnly(md) == "cli_commands" \in DOMAIN md

\* The guard "if cmds := metadata.get("cli_commands")": the key is present
\* and its list is non-empty.
HasCliCommands(md) == "cli_commands" \in DOMAIN md /\ Truthy(md["cli_commands"])

\* A test that takes every tool type that has no usage of its own for a
\* library.
IsLibrary_AnyOther(tt) == tt \notin {"cli", "mcp-server", "github-action"}

\* The test "if tool_type == "library"".
IsLibrary(tt) == tt = "library"

\* A module name that keeps the hyphens of the name.
ModuleName_Raw(name) == name

\* name.replace('-', '_')
ModuleName(name) == Replace(name, "-", "_")

\* _build_usage(metadata, tool_type): [ok, v], ok = FALSE when it raises.
_build_usage(md, tt) ==
    LET lang == Lower(Get(md, "language", ""))
        name == Get(md, "name", "tool")
        mod  == ModuleName(name)
    IN IF tt \in {"cli", "mcp-server"}
       THEN IF HasCliCommands(md)
            THEN LET first == Subscript0(md["cli_commands"])
                 IN [ok |-> first.ok, v |-> first.v \o " --help"]
            ELSE [ok |-> TRUE, v |-> name \o " --help"]
       ELSE IF tt = "github-action"
       THEN [ok |-> TRUE,
             v  |-> "- uses: " \o name
                      \o "@v1\n  with:\n    api-key: ${{ secrets.API_KEY }}"]
       ELSE IF IsLibrary(tt) /\ Contains("python", lang)
       THEN [ok |-> TRUE, v |-> "from " \o mod \o " import " \o Title(mod)]
       ELSE IF IsLibrary(tt)
                 /\ (Contains("javascript", lang) \/ Contains("typescript", lang))
       THEN [ok |-> TRUE,
             v  |-> "import { " \o name \o " } from '" \o name \o "';"]
       ELSE IF IsLibrary(tt) /\ Contains("rust", lang)
       THEN [ok |-> TRUE, v |-> "use " \o mod \o "::*;"]
       ELSE [ok |-> TRUE, v |-> "# See documentation for usage examples"]

\* The requirements dict of _build_requirements.
RequirementsTable ==
    [python     |-> "Python >= 3.9",
     javascript |-> "Node.js >= 18",
     typescript |-> "Node.js >= 18",
     rust       |-> "Rust >= 1.70",
     go         |-> "Go >= 1.21"]

\* _build_requirements(metadata)
_build_requirements(md) ==
    Get(RequirementsTable, Lower(Get(md, "language", "")),
        "See repository for requirements")

\* The mapping dict of _lang_to_fence.
FenceTable ==
    [python |-> "bash", javascript |-> "bash", typescript |-> "bash",
     rust |-> "bash", go |-> "bash"]

\* _lang_to_fence(language)
_lang_to_fence(language) == Get(FenceTable, Lower(language), "bash")

-----------------------------------------------------------------------------
(* _build_data: the normalised dict shared by the renderers                *)

\* x or y
PyOr(x, y) == IF Truthy(x) THEN x ELSE y

\* A slice that keeps the last ten keywords: keywords[-10:].
data_keywords_Last(kw) ==
    SubSeq(kw, IF Len(kw) > KeywordCap THEN Len(kw) - KeywordCap + 1 ELSE 1, Len(kw))

\* "keywords": keywords[:10]
data_keywords(kw) == Take(kw, KeywordCap)

\* "features": metadata.get("features", [])[:5]
data_features(md) == Take(Get(md, "features", <<>>), FeatureCap)

\* A resolution that prefers the raw description to the AI's.
data_description_RawFirst(md, language) ==
    PyOr(Get(md, "description", ""),
         PyOr(Get(md, "ai_description", ""), "A " \o language \o " tool."))

\* "description": metadata.get("ai_description") or
\*     metadata.get("description", "") or f"A {language} tool."
\* (get without a default gives None, which "or" skips as it skips "").
data_description(md, language) ==
    PyOr(Get(md, "ai_description", ""),
         PyOr(Get(md, "description", ""), "A " \o language \o " tool."))

\* "author": author or metadata.get("author", "Unknown")
data_author(md, au) == PyOr(au, Get(md, "author", "Unknown"))

\* "license": license_id
data_license(md, lic) == lic

\* "repository": repository or metadata.get("repository", "")
data_repository(md, repo) == PyOr(repo, Get(md, "repository", ""))

\* The keys of the dict literal, in insertion order.
DataKeys ==
    <<"name", "version", "type", "language", "keywords", "description",
      "installation", "usage", "requirements", "features", "author", "license",
      "repository", "homepage", "status", "last_updated", "generated_at">>

\* _build_data(metadata, tool_type, keywords, author, license_id, repository),
\* with t1 and t2 the instants of its two datetime.now() calls: [ok, d], ok = FALSE
\* when building raises.
_build_data(md, tt, kw, au, lic, repo, t1, t2) ==
    LET name     == Get(md, "name", "unknown-tool")
        language == Get(md, "language", "Unknown")
        usage    == _build_usage(md, tt)
    IN [ok |-> usage.ok,
        d  |-> [name         |-> name,
                version      |-> Get(md, "version", "0.1.0"),
                type         |-> tt,
                language     |-> language,
                keywords     |-> data_keywords(kw),
                description  |-> data_description(md, language),
                installation |-> _build_installation(md, tt),
                usage        |-> usage.v,
                requirements |-> _build_requirements(md),
                features     |-> data_features(md),
                author       |-> data_author(md, au),
                license      |-> data_license(md, lic),
                repository   |-> data_repository(md, repo),
                homepage     |-> Get(md, "homepage", ""),
                status       |-> "active",
                last_updated |-> StrfDate(t1),
                generated_at |-> StrfDateTime(t2)]]

-----------------------------------------------------------------------------
(* _render_yaml                                                            *)

\* [f"  - {x}" for x in items]
YamlItems(items) == [i \in 1..Len(items) |-> "  - " \o items[i]]

\* keywords_yaml = "\n".join(...) or "  []"
keywords_yaml(d) == PyOr(Join("\n", YamlItems(d.keywords)), "  []")

\* A features block without the marker of the empty sequence.
features_yaml_NoMarker(d) == Join("\n", YamlItems(d.features))

\* features_yaml = "\n".join(...) if data["features"] else "  []"
features_yaml(d) ==
    IF Truthy(d.features) THEN Join("\n", YamlItems(d.features)) ELSE "  []"

\* desc_yaml: the quotes are escaped first, then a description holding a line
\* break becomes a block literal, any other a quoted scalar.
desc_yaml(d) ==
    LET desc == Replace(d.description, "\"", "\\\"")
    IN IF Contains("\n", desc)
       THEN "description: " \o "|\n  " \o Replace(desc, "\n", "\n  ")
       ELSE "description: \"" \o desc \o "\""

\* The lines list of _render_yaml, the optional lines included.
yaml_lines(d) ==
    << "# MoltBook Listing",
       "# Generated: " \o d.generated_at,
       "# Tool: " \o d.name,
       "",
       "name: " \o d.name,
       "version: " \o d.version,
       "type: " \o d.type,
       "language: " \o d.language,
       "author: " \o d.author,
       "license: " \o d.license,
       "status: " \o d.status,
       "last_updated: " \o d.last_updated,
       "",
       "keywords:",
       keywords_yaml(d),
       "",
       desc_yaml(d),
       "",
       "features:",
       features_yaml(d),
       "",
       "installation: \"" \o d.installation \o "\"",
       "usage: \"" \o d.usage \o "\"",
       "requirements: \"" \o d.requirements \o "\"" >>
    \o (IF Truthy(d.repository)
        THEN << "repository: \"" \o d.repository \o "\"" >> ELSE << >>)
    \o (IF Truthy(d.homepage)
        THEN << "homepage: \"" \o d.homepage \o "\"" >> ELSE << >>)

\* _render_yaml(data, metadata, tool_type)
_render_yaml(d) == Join("\n", yaml_lines(d)) \o "\n"

-----------------------------------------------------------------------------
(* _render_markdown                                                        *)

\* The grave accent (U+0060) of the markdown templates.  SANY's lexer rejects
\* that character inside a string literal, so the model writes it as "^", a
\* character that occurs in no other text of the model.
Backtick == "^"

\* The opening and closing line of a fenced code block, less the language tag.
Fence == Backtick \o Backtick \o Backtick

\* The inline-code form of each keyword.
Badges(items) == [i \in 1..Len(items) |-> Backtick \o items[i] \o Backtick]

\* kw_badges
kw_badges(d) == Join(" ", Badges(d.keywords))

\* [f"- {f}" for f in data["features"]]
Bullets(items) == [i \in 1..Len(items) |-> "- " \o items[i]]

\* A features section that is a bullet list also when there is no feature.
features_md_AlwaysBullets(d) == Join("\n", Bullets(d.features))

\* features_md
features_md(d) ==
    IF Truthy(d.features) THEN Join("\n", Bullets(d.features))
    ELSE "_No features listed._"

\* A heading that leaves the version bare.
md_heading_Bare(d) == "# " \o d.name \o " v" \o d.version

\* The first element of the lines list of _render_markdown.
md_heading(d) == "# " \o d.name \o " " \o Backtick \o "v" \o d.version \o Backtick

\* The lines list of _render_markdown.
markdown_lines(d) ==
    << md_heading(d),
       "",
       "> " \o d.description,
       "",
       "**Type:** " \o d.type \o " &nbsp;|&nbsp; "
           \o "**Language:** " \o d.language \o " &nbsp;|&nbsp; "
           \o "**License:** " \o d.license,
       "",
       "**Keywords:** " \o kw_badges(d),
       "",
       "---",
       "",
       "## Installation",
       "",
       Fence \o _lang_to_fence(d.language),
       d.installation,
       Fence,
       "",
       "## Usage",
       "",
       Fence \o _lang_to_fence(d.language),
       d.usage,
       Fence,
       "",
       "## Features",
       "",
       features_md(d),
       "",
       "## Requirements",
       "",
       "- " \o d.requirements,
       "",
       "---",
       "",
       "**Author:** " \o d.author \o "  ",
       "**Repository:** " \o PyOr(d.repository, "_not set_") \o "  ",
       "**Last updated:** " \o d.last_updated \o "  ",
       "**Generated:** " \o d.generated_at >>

\* _render_markdown(data, metadata, tool_type)
_render_markdown(d) == Join("\n", markdown_lines(d)) \o "\n"

-----------------------------------------------------------------------------
(* _render_json: json.dumps(output, indent=2, ensure_ascii=False)          *)

\* An encoder that writes every character as it is.
JsonEscapeChar_None(c) == c

\* The escape json.dumps writes for one character of a str (ensure_ascii is
\* False, so every character outside the escapes is written as it is).
JsonEscapeChar(c) ==
    CASE c = "\"" -> "\\\""
      [] c = "\\" -> "\\\\"
      [] c = "\n" -> "\\n"
      [] c = "\r" -> "\\r"
      [] c = "\t" -> "\\t"
      [] OTHER    -> c

RECURSIVE JsonEscapeRange(_, _, _)
JsonEscapeRange(s, lo, hi) ==
    IF lo > hi THEN ""
    ELSE IF lo = hi THEN JsonEscapeChar(CharAt(s, lo))
    ELSE LET mid == (lo + hi) \div 2
         IN JsonEscapeRange(s, lo, mid) \o JsonEscapeRange(s, mid + 1, hi)

\* json.dumps of a str
JsonString(s) == "\"" \o JsonEscapeRange(s, 1, Len(s)) \o "\""

\* json.dumps of a list of str at nesting level 1 with indent=2: an empty list
\* is "[]", any other has one item per line.
JsonList(items) ==
    IF Len(items) = 0 THEN "[]"
    ELSE "[\n"
         \o Join(",\n", [i \in 1..Len(items) |-> "    " \o JsonString(items[i])])
         \o "\n  ]"

\* The keys whose values _build_data makes lists; every other value is a str.
ListKeys == {"keywords", "features"}

\* One "key": value member of the object, indented.
JsonMember(d, k) ==
    "  " \o JsonString(k) \o ": "
         \o (IF k \in ListKeys THEN JsonList(d[k]) ELSE JsonString(d[k]))

\* The keys of the output dict of _render_json, in insertion order: those of
\* data other than generated_at, then generated_at.
json_keys == SelectSeq(DataKeys, LAMBDA k : k # "generated_at") \o <<"generated_at">>

\* _render_json(data)
_render_json(d) ==
    "{\n"
    \o Join(",\n", [i \in 1..Len(json_keys) |-> JsonMember(d, json_keys[i])])
    \o "\n}"

-----------------------------------------------------------------------------
(* json.loads, for the documents _render_json writes: an object whose      *)
(* values are strings and arrays of strings.  Every parser gives            *)
(* [ok, v, i]: whether the text parses, the value, and the place after it.  *)

\* The character at place i, "" past the end of the text.
At(s, i) == IF i >= 1 /\ i <= Len(s) THEN CharAt(s, i) ELSE ""

JsonWhitespace == {" ", "\n", "\r", "\t"}

RECURSIVE SkipWs(_, _)
SkipWs(s, i) == IF At(s, i) \in JsonWhitespace THEN SkipWs(s, i + 1) ELSE i

\* The character an escape \e stands for; "" when \e is no escape.
JsonUnescapeChar(e) ==
    CASE e = "\"" -> "\""
      [] e = "\\" -> "\\"
      [] e = "/"  -> "/"
      [] e = "n"  -> "\n"
      [] e = "r"  -> "\r"
      [] e = "t"  -> "\t"
      [] OTHER    -> ""

\* The number of backslashes that stand in a row right before place k, none
\* of them before place lo.
RECURSIVE BackslashRun(_, _, _)
BackslashRun(s, k, lo) ==
    IF k > lo /\ At(s, k - 1) = "\\" THEN 1 + BackslashRun(s, k - 1, lo) ELSE 0

\* In a string whose characters start at lo: place k is the second character
\* of an escape, and place k is the backslash that starts one.
IsEscaped(s, k, lo) == BackslashRun(s, k, lo) % 2 = 1
IsIntroducer(s, k, lo) == At(s, k) = "\\" /\ ~IsEscaped(s, k, lo)

\* The place of the quote that closes the string whose characters start at
\* lo: the first quote that is not escaped; past the end when there is none.
ClosingQuote(s, lo) ==
    CHOOSE j \in lo..(Len(s) + 1) :
        /\ j = Len(s) + 1 \/ (At(s, j) = "\"" /\ ~IsEscaped(s, j, lo))
        /\ \A k \in lo..(j - 1) : ~(At(s, k) = "\"" /\ ~IsEscaped(s, k, lo))

\* The characters written at places from..to of a string that starts at lo:
\* an escape gives the character it stands for, any other character itself.
RECURSIVE DecodeRange(_, _, _, _)
DecodeRange(s, lo, from, to) ==
    IF from > to THEN ""
    ELSE IF from = to
    THEN (IF IsEscaped(s, from, lo) THEN JsonUnescapeChar(At(s, from))
          ELSE IF IsIntroducer(s, from, lo) THEN ""
          ELSE At(s, from))
    ELSE LET mid == (from + to) \div 2
         IN DecodeRange(s, lo, from, mid) \o DecodeRange(s, lo, mid + 1, to)

\* The string whose opening quote is at place i - 1.  A raw control
\* character, an escape that is none, and a missing closing quote are errors.
ScanString(s, i) ==
    LET close == ClosingQuote(s, i)
        valid == /\ close <= Len(s)
                 /\ \A k \in i..(close - 1) :
                        IF IsEscaped(s, k, i) THEN JsonUnescapeChar(At(s, k)) # ""
                        ELSE At(s, k) \notin {"\n", "\r", "\t"}
    IN IF valid THEN [ok |-> TRUE, v |-> DecodeRange(s, i, i, close - 1), i |-> close + 1]
       ELSE [ok |-> FALSE, v |-> "", i |-> i]

ParseString(s, i) ==
    IF At(s, i) = "\"" THEN ScanString(s, i + 1)
    ELSE [ok |-> FALSE, v |-> "", i |-> i]

\* The items of a non-empty array from place i, the first item's place.
RECURSIVE ParseItems(_, _, _)
ParseItems(s, i, acc) ==
    LET item == ParseString(s, i)
        j    == SkipWs(s, item.i)
    IN IF ~item.ok THEN [ok |-> FALSE, v |-> acc, i |-> i]
       ELSE IF At(s, j) = ","
       THEN ParseItems(s, SkipWs(s, j + 1), Append(acc, item.v))
       ELSE IF At(s, j) = "]"
       THEN [ok |-> TRUE, v |-> Append(acc, item.v), i |-> j + 1]
       ELSE [ok |-> FALSE, v |-> acc, i |-> j]

\* A value: a string or an array of strings.
ParseValue(s, i) ==
    IF At(s, i) = "["
    THEN LET j == SkipWs(s, i + 1)
         IN IF At(s, j) = "]" THEN [ok |-> TRUE, v |-> << >>, i |-> j + 1]
            ELSE ParseItems(s, j, << >>)
    ELSE ParseString(s, i)

\* The members of a non-empty object from place i, the first key's place;
\* keys are the keys read so far, in order, and obj their values (a key that
\* comes again keeps its first place and takes the later value, as in a dict).
RECURSIVE ParseMembers(_, _, _, _)
ParseMembers(s, i, keys, obj) ==
    LET key   == ParseString(s, i)
        colon == SkipWs(s, key.i)
        val   == ParseValue(s, SkipWs(s, colon + 1))
        j     == SkipWs(s, val.i)
        keys2 == IF key.v \in DOMAIN obj THEN keys ELSE Append(keys, key.v)
        obj2  == (key.v :> val.v) @@ obj
        bad   == [ok |-> FALSE, keys |-> keys, obj |-> obj, i |-> i]
    IN IF ~key.ok \/ At(s, colon) # ":" THEN bad
       ELSE IF ~val.ok THEN bad
       ELSE IF At(s, j) = ","
       THEN ParseMembers(s, SkipWs(s, j + 1), keys2, obj2)
       ELSE IF At(s, j) = "}"
       THEN [ok |-> TRUE, keys |-> keys2, obj |-> obj2, i |-> j + 1]
       ELSE bad

\* json.loads(text): [ok, keys, obj], ok = FALSE when it raises.
JsonLoads(text) ==
    LET start == SkipWs(text, 1)
        first == SkipWs(text, start + 1)
        empty == [ok |-> TRUE, keys |-> << >>, obj |-> << >>, i |-> first + 1]
        body  == IF At(text, start) # "{"
                 THEN [ok |-> FALSE, keys |-> << >>, obj |-> << >>, i |-> start]
                 ELSE IF At(text, first) = "}" THEN empty
                 ELSE ParseMembers(text, first, << >>, << >>)
    IN [ok   |-> body.ok /\ SkipWs(text, body.i) = Len(text) + 1,
        keys |-> body.keys,
        obj  |-> body.obj]

-----------------------------------------------------------------------------
(* render                                                                  *)

\* A dispatch that refuses a format it does not know.
render_Strict(fmt, d) ==
    IF fmt = "json" THEN _render_json(d)
    ELSE IF fmt = "markdown" THEN _render_markdown(d)
    ELSE IF fmt = "yaml" THEN _render_yaml(d)
    ELSE "ValueError: unsupported format"

\* The dispatch of render on output_format.
render(fmt, d) ==
    IF fmt = "json" THEN _render_json(d)
    ELSE IF fmt = "markdown" THEN _render_markdown(d)
    ELSE _render_yaml(d)

-----------------------------------------------------------------------------
(* The calls of render that the model explores                             *)

\* The longest keywords list and the longest features list that are tried.
MaxKw == 12
MaxFeat == 7

\* An optional field of the metadata: << >> when the key is absent, <<v>> when
\* it is present with value v.
Absent == << >>
Present(v) == <<v>>

\* TOOL_TYPES
TOOL_TYPES ==
    {"cli", "library", "web-app", "service", "plugin", "mcp-server", "github-action"}

\* The tool_type strings tried: the recognised ones and two that are not,
\* one of them a recognised type in other letters.
ToolTypeArgs == TOOL_TYPES \cup {"desktop-app", "CLI"}

\* The output_format strings tried: the three of OutputFormat and others.
FormatArgs == {"yaml", "json", "markdown", "xml"}
OddFormatArgs == {"", "YAML", "Markdown", "toml"}

NameOpts == {Absent, Present(""), Present("my-tool"), Present("q\"t\\")}
PlainNameOpts == {Absent, Present(""), Present("my-tool")}
VersionOpts == {Absent, Present(""), Present("1.2.3")}
LanguageOpts ==
    {Absent, Present(""), Present("Python"), Present("JavaScript"),
     Present("TypeScript"), Present("Rust"), Present("Go"), Present("Ruby"),
     Present("Python 3"), Present("Go and Rust"), Present("Python/TypeScript"),
     Present("Mongo")}
FewLanguageOpts == {Absent, Present(""), Present("Rust")}
UsageLanguageOpts == {Absent, Present("Python"), Present("JavaScript"), Present("Rust")}
DescriptionOpts ==
    {Absent, Present(""), Present("A handy utility."),
     Present("Say \"hi\" to a\\b."), Present("First line.\nSecond \"line\".")}
AiDescriptionOpts == {Absent, Present(""), Present("Polished: does \"it\".")}
AuthorOpts == {Absent, Present(""), Present("Alice")}
RepositoryOpts == {Absent, Present(""), Present("alice/my-tool")}
HomepageOpts == {Absent, Present(""), Present("https://example.com")}
CliCommandsOpts ==
    {Absent, Present(<< >>), Present(<<"foo">>), Present(<<"bar", "foo">>)}

\* The i-th keyword of the generated lists: not in sorted order, and with a
\* repeated keyword at every fourth place.
KwAt(i) == IF i % 4 = 0 THEN "dup" ELSE "kw" \o Dec2(99 - i)
KwList(n) == [i \in 1..n |-> KwAt(i)]
KeywordArgs ==
    {KwList(n) : n \in 0..MaxKw}
        \cup {<<"python", "utility", "cli", "automation">>, <<"c++", "say \"x\"">>}

\* The i-th feature of the generated lists, with the same shape.
FeatAt(i) == IF i % 3 = 0 THEN "Same" ELSE "Feature " \o Dec2(50 - i)
FeatList(n) == [i \in 1..n |-> FeatAt(i)]
FeaturesOpts ==
    {Absent} \cup {Present(FeatList(n)) : n \in 0..MaxFeat}
        \cup {Present(<<"Fast \"parsing\"", "Async support">>)}

\* The instants at which a call starts: noon, and the last second of a day.
ClockStarts == {43200, 86399}
\* The seconds that pass between the two datetime.now() calls of _build_data.
Ticks == {0, 1}

\* The call of the test fixture.
BaseCall ==
    [name           |-> Present("my-tool"),
     version        |-> Present("1.2.3"),
     language       |-> Present("Python"),
     description    |-> Present("A handy utility."),
     ai_description |-> Absent,
     features       |-> Present(<<"Fast parsing", "Async support", "Type-safe">>),
     m_author       |-> Present("Alice"),
     m_repository   |-> Present("alice/my-tool"),
     homepage       |-> Present("https://example.com"),
     cli_commands   |-> Absent,
     tool_type      |-> "cli",
     keywords       |-> <<"python", "utility", "cli", "automation">>,
     output_format  |-> "yaml",
     author         |-> "",
     license_id     |-> "MIT",
     repository     |-> "",
     clock          |-> 43200]

\* Installation: name, language and tool type.
InstallCalls ==
    {[BaseCall EXCEPT !.name = n, !.language = l, !.tool_type = t,
                      !.output_format = f] :
        n \in PlainNameOpts, l \in LanguageOpts, t \in ToolTypeArgs,
        f \in FormatArgs}

\* Usage: name, cli_commands, tool type and language.
UsageCalls ==
    {[BaseCall EXCEPT !.name = n, !.cli_commands = c, !.tool_type = t,
                      !.language = l, !.output_format = f] :
        n \in PlainNameOpts, c \in CliCommandsOpts, t \in ToolTypeArgs,
        l \in UsageLanguageOpts, f \in {"yaml", "json"}}

\* Description: ai_description, description and language.
DescriptionCalls ==
    {[BaseCall EXCEPT !.ai_description = a, !.description = d, !.language = l,
                      !.output_format = f] :
        a \in AiDescriptionOpts, d \in DescriptionOpts, l \in FewLanguageOpts,
        f \in FormatArgs \cup OddFormatArgs}

\* Defaults: name, version and language.
DefaultCalls ==
    {[BaseCall EXCEPT !.name = n, !.version = v, !.language = l,
                      !.output_format = f] :
        n \in NameOpts, v \in VersionOpts, l \in FewLanguageOpts, f \in FormatArgs}

\* Overrides: author, license and repository, of the metadata and of the call.
OverrideCalls ==
    {[BaseCall EXCEPT !.m_author = ma, !.author = a, !.license_id = li,
                      !.m_repository = mr, !.repository = r,
                      !.tool_type = t, !.output_format = f] :
        ma \in AuthorOpts, a \in {"", "Bob"}, li \in {"", "MIT", "Apache-2.0"},
        mr \in RepositoryOpts, r \in {"", "bob/fork"},
        t \in {"cli", "github-action"}, f \in FormatArgs}

\* The optional lines: repository and homepage.
HomepageCalls ==
    {[BaseCall EXCEPT !.homepage = h, !.m_repository = mr, !.repository = r,
                      !.output_format = f] :
        h \in HomepageOpts, mr \in RepositoryOpts, r \in {"", "bob/fork"},
        f \in FormatArgs}

\* Truncation: the keywords and the features.
SequenceCalls ==
    {[BaseCall EXCEPT !.keywords = k, !.features = fe, !.output_format = f] :
        k \in KeywordArgs, fe \in FeaturesOpts, f \in FormatArgs}

\* The clock: the instant at which the call starts.
ClockCalls ==
    {[BaseCall EXCEPT !.clock = c, !.output_format = f] :
        c \in ClockStarts, f \in FormatArgs \cup OddFormatArgs}

\* The empty metadata mapping, for every tool type.
EmptyCalls ==
    {[BaseCall EXCEPT !.name = Absent, !.version = Absent, !.language = Absent,
                      !.description = Absent, !.features = Absent,
                      !.m_author = Absent, !.m_repository = Absent,
                      !.homepage = Absent, !.tool_type = t, !.keywords = << >>,
                      !.output_format = f] :
        t \in ToolTypeArgs, f \in FormatArgs}

Calls ==
    InstallCalls \cup UsageCalls \cup DescriptionCalls \cup DefaultCalls
        \cup OverrideCalls \cup HomepageCalls \cup SequenceCalls
        \cup ClockCalls \cup EmptyCalls

\* The metadata dict of a call: the keys that are present, with their values.
MetaFields ==
    [name |-> "name", version |-> "version", language |-> "language",
     description |-> "description", ai_description |-> "ai_description",
     features |-> "features", author |-> "m_author",
     repository |-> "m_repository", homepage |-> "homepage",
     cli_commands |-> "cli_commands"]

MkMeta(c) ==
    [k \in {x \in DOMAIN MetaFields : Len(c[MetaFields[x]]) = 1} |->
        c[MetaFields[k]][1]]

-----------------------------------------------------------------------------
(* The state machine                                                       *)

\* No dict yet: render has not built one.
NoData == << >>

\* The client has not been asked.
NoReply == [asked |-> FALSE, raises |-> FALSE, text |-> ""]

\* No generate is running: render is called on its own.
NoGenerate ==
    /\ source = ""
    /\ tool_type_arg = << >>
    /\ use_ai = FALSE
    /\ ai_reply = NoReply
    /\ cleanup = FALSE
    /\ temp_dir = "none"
    /\ local_dir = "none"

\* The arguments of a render call.
Passes(c) ==
    /\ metadata = MkMeta(c)
    /\ tool_type = c.tool_type
    /\ keywords = c.keywords
    /\ output_format = c.output_format
    /\ author = c.author
    /\ license_id = c.license_id
    /\ repository = c.repository

Init ==
    \E c \in Calls :
        /\ Passes(c)
        /\ clock = c.clock
        /\ data = NoData
        /\ result = ""
        /\ pc = "ready"
        /\ ncalls = 1
        /\ NoGenerate
        /\ called = [method |-> "render", format_given |-> TRUE]

\* A render that cuts the caller's list in place: del keywords[10:].
keywords_after_Truncated(kw) == Take(kw, KeywordCap)

\* The caller's keyword list after render: keywords[:10] is a copy, the
\* list itself is left as it was.
keywords_after(kw) == kw

\* MoltBookTemplate.render: build the dict, reading the clock twice, and
\* dispatch on output_format.
Render ==
    /\ pc = "ready"
    /\ called.method = "render"
    /\ \E tick \in Ticks :
        LET built == _build_data(metadata, tool_type, keywords, author,
                                 license_id, repository, clock, clock + tick)
        IN /\ clock' = clock + tick
           /\ IF built.ok
              THEN /\ data' = built.d
                   /\ result' = render(output_format, built.d)
                   /\ pc' = "returned"
              ELSE /\ data' = data
                   /\ result' = result
                   /\ pc' = "raised"
    /\ keywords' = keywords_after(keywords)
    /\ UNCHANGED <<metadata, tool_type, output_format, author, license_id,
                   repository, ncalls>>
    /\ UNCHANGED gen_vars
    /\ UNCHANGED called

Next == Render

Spec == Init /\ [][Next]_vars

-----------------------------------------------------------------------------
(* render_full_listing, the alias kept for backwards compatibility         *)

\* An alias that hands its arguments on by position, in the order of its own
\* signature (author, license_id, repository, output_format), to render,
\* whose fourth parameter is output_format.
RenderFullListing_ByPosition ==
    /\ pc = "ready"
    /\ called.method = "render_full_listing"
    /\ \E tick \in Ticks :
        LET fmt   == IF called.format_given THEN output_format ELSE "yaml"
            built == _build_data(metadata, tool_type, keywords, license_id,
                                 repository, fmt, clock, clock + tick)
        IN /\ clock' = clock + tick
           /\ IF built.ok
              THEN /\ data' = built.d
                   /\ result' = render(author, built.d)
                   /\ pc' = "returned"
              ELSE /\ data' = data
                   /\ result' = result
                   /\ pc' = "raised"
    /\ keywords' = keywords_after(keywords)
    /\ UNCHANGED <<metadata, tool_type, output_format, author, license_id,
                   repository, ncalls, called>>
    /\ UNCHANGED gen_vars

\* MoltBookTemplate.render_full_listing: output_format is its last parameter
\* and defaults to "yaml"; the body is one call of render, every argument
\* passed by keyword.
RenderFullListing ==
    /\ pc = "ready"
    /\ called.method = "render_full_listing"
    /\ \E tick \in Ticks :
        LET fmt   == IF called.format_given THEN output_format ELSE "yaml"
            built == _build_data(metadata, tool_type, keywords, author,
                                 license_id, repository, clock, clock + tick)
        IN /\ clock' = clock + tick
           /\ IF built.ok
              THEN /\ data' = built.d
                   /\ result' = render(fmt, built.d)
                   /\ pc' = "returned"
              ELSE /\ data' = data
                   /\ result' = result
                   /\ pc' = "raised"
    /\ keywords' = keywords_after(keywords)
    /\ UNCHANGED <<metadata, tool_type, output_format, author, license_id,
                   repository, ncalls, called>>
    /\ UNCHANGED gen_vars

\* A caller of either method: the overrides and the formats, render's own
\* and unrecognised ones, and for the alias the call without output_format.
AliasInit ==
    \E c \in OverrideCalls \cup ClockCalls :
        /\ Passes(c)
        /\ clock = c.clock
        /\ data = NoData
        /\ result = ""
        /\ pc = "ready"
        /\ ncalls = 1
        /\ NoGenerate
        /\ called \in {[method |-> "render", format_given |-> TRUE],
                       [method |-> "render_full_listing", format_given |-> TRUE],
                       [method |-> "render_full_listing", format_given |-> FALSE]}

AliasNext == Render \/ RenderFullListing

AliasSpec == AliasInit /\ [][AliasNext]_vars

-----------------------------------------------------------------------------
(* Several render calls on one MoltBookTemplate                            *)

\* The number of calls made on the template.
MaxCalls == 3

\* The calls of a sequence: the fixture's, one with an unrecognised format,
\* one with an unrecognised tool type and more keywords than the listing
\* keeps, and one with the empty mapping.
AgainCalls ==
    {[BaseCall EXCEPT !.output_format = "json"],
     [BaseCall EXCEPT !.output_format = "toml", !.author = "Bob"],
     [BaseCall EXCEPT !.tool_type = "desktop-app", !.keywords = KwList(12),
                      !.output_format = "markdown"],
     [BaseCall EXCEPT !.tool_type = "github-action", !.repository = "bob/fork"],
     [BaseCall EXCEPT !.name = Absent, !.version = Absent, !.language = Absent,
                      !.description = Absent, !.features = Absent,
                      !.m_author = Absent, !.m_repository = Absent,
                      !.homepage = Absent, !.keywords = << >>]}

SeqInit ==
    \E c \in AgainCalls :
        /\ Passes(c)
        /\ clock = c.clock
        /\ data = NoData
        /\ result = ""
        /\ pc = "ready"
        /\ ncalls = 1
        /\ NoGenerate
        /\ called = [method |-> "render", format_given |-> TRUE]

\* The next call on the same template.  The caller still holds what the
\* call before returned.
Call ==
    /\ pc \in {"returned", "raised"}
    /\ ncalls < MaxCalls
    /\ \E c \in AgainCalls :
          /\ metadata' = MkMeta(c)
          /\ tool_type' = c.tool_type
          /\ keywords' = c.keywords
          /\ output_format' = c.output_format
          /\ author' = c.author
          /\ license_id' = c.license_id
          /\ repository' = c.repository
    /\ pc' = "ready"
    /\ ncalls' = ncalls + 1
    /\ UNCHANGED <<clock, data, result>>
    /\ UNCHANGED gen_vars
    /\ UNCHANGED called

SeqNext == Render \/ Call

SeqSpec == SeqInit /\ [][SeqNext]_vars

-----------------------------------------------------------------------------
(* MoltBookGenerator: the helpers of generate                              *)

\* The printable ASCII characters in code point order (U+0060 left out, see
\* Backtick): the order in which Python compares strings.
CodePoints ==
    " !\"#$%&'()*+,-./0123456789:;<=>?@ABCDEFGHIJKLMNOPQRSTUVWXYZ[\\]^_"
        \o "abcdefghijklmnopqrstuvwxyz{|}~"

Ord(c) == CHOOSE i \in 1..Len(CodePoints) : CharAt(CodePoints, i) = c

\* a < b for two str, from place i on.
RECURSIVE StrLessFrom(_, _, _)
StrLessFrom(a, b, i) ==
    IF i > Len(a) THEN i <= Len(b)
    ELSE IF i > Len(b) THEN FALSE
    ELSE IF CharAt(a, i) = CharAt(b, i) THEN StrLessFrom(a, b, i + 1)
    ELSE Ord(CharAt(a, i)) < Ord(CharAt(b, i))

StrLess(a, b) == StrLessFrom(a, b, 1)

\* sorted(list(S)) for a set of str.
RECURSIVE SortedList(_)
SortedList(S) ==
    IF S = {} THEN << >>
    ELSE LET least == CHOOSE x \in S : \A y \in S \ {x} : StrLess(x, y)
         IN <<least>> \o SortedList(S \ {least})

PyWhitespace == {" ", "\t", "\n", "\r"}

\* set(text.split()): the words between runs of whitespace.
Words(text) ==
    LET n       == Len(text)
        IsWs(i) == i < 1 \/ i > n \/ CharAt(text, i) \in PyWhitespace
        starts  == {i \in 1..n : ~IsWs(i) /\ IsWs(i - 1)}
        end(i)  == CHOOSE j \in i..n : IsWs(j + 1) /\ \A k \in i..j : ~IsWs(k)
    IN {SubSeq(text, i, end(i)) : i \in starts}

\* s.strip(chars) for a set of characters.
StripChars(s, chars) ==
    LET keep == {i \in 1..Len(s) : CharAt(s, i) \notin chars}
    IN IF keep = {} THEN ""
       ELSE SubSeq(s, CHOOSE i \in keep : \A j \in keep : i <= j,
                      CHOOSE i \in keep : \A j \in keep : i >= j)

\* s.split(sep)[0]
BeforeFirst(s, sep) ==
    LET hits == {i \in 1..Len(s) :
                    /\ i + Len(sep) - 1 <= Len(s)
                    /\ SubSeq(s, i, i + Len(sep) - 1) = sep}
    IN IF hits = {} THEN s
       ELSE SubSeq(s, 1, (CHOOSE i \in hits : \A j \in hits : i <= j) - 1)

\* s.split(sep)[-1] for a single character sep
AfterLast(s, sep) ==
    LET hits == {i \in 1..Len(s) : CharAt(s, i) = sep}
    IN IF hits = {} THEN s
       ELSE SubSeq(s, (CHOOSE i \in hits : \A j \in hits : i >= j) + 1, Len(s))

\* dep.split("/")[-1].split("@")[0].split("==")[0]
DepBase(dep) == BeforeFirst(BeforeFirst(AfterLast(dep, "/"), "@"), "==")

common_keywords ==
    {"cli", "api", "web", "database", "testing", "automation", "monitoring",
     "deployment", "security", "parser", "generator", "framework", "library",
     "tool", "utility", "service"}

\* MoltBookGenerator._extract_keywords
_extract_keywords(md) ==
    LET lang  == Get(md, "language", "")
        deps  == Get(md, "dependencies", << >>)
        bases == {DepBase(deps[i]) : i \in 1..Len(deps)}
        text  == Get(md, "description", "") \o " " \o Get(md, "readme_excerpt", "")
        found == {StripChars(w, {".", ",", ";", ":", "!", "?"}) : w \in Words(Lower(text))}
        kws   == (IF Truthy(lang) THEN {Lower(lang)} ELSE {})
                     \cup {Lower(b) : b \in {x \in bases : Len(x) > 2}}
                     \cup (found \cap common_keywords)
    IN Take(SortedList(kws), KeywordCap)

\* MoltBookGenerator._detect_tool_type
_detect_tool_type(md) ==
    IF Get(md, "has_bin", FALSE) \/ Truthy(Get(md, "cli_commands", << >>)) THEN "cli"
    ELSE IF Get(md, "has_web_framework", FALSE) THEN "web-app"
    ELSE IF Get(md, "has_server", FALSE) \/ Get(md, "has_daemon", FALSE) THEN "service"
    ELSE IF Contains("plugin", Lower(Get(md, "name", ""))) THEN "plugin"
    ELSE "library"

-----------------------------------------------------------------------------
(* MoltBookGenerator.generate                                              *)

\* s.startswith(prefix)
StartsWith(s, prefix) ==
    Len(prefix) <= Len(s) /\ SubSeq(s, 1, Len(prefix)) = prefix

\* is_url
is_url(src) == StartsWith(src, "http://") \/ StartsWith(src, "https://")

\* The sources tried: two URLs, a directory that exists, one that does not,
\* and a remote address that is no http URL.
Sources ==
    {"https://github.com/user/repo", "http://git.local/repo", "./my-tool",
     "./missing", "git@github.com:user/repo.git"}

\* The name of the directory that is parsed: mkdtemp's for a clone.
RepoDirName(src) == IF is_url(src) THEN "moltbook_k3x9" ELSE "my-tool"

\* The metadata dict RepoParser.parse starts from.
ParseDefaults(dirname) ==
    [name |-> dirname, description |-> "", version |-> "", language |-> "",
     dependencies |-> << >>, features |-> << >>, readme_excerpt |-> "",
     has_bin |-> FALSE, cli_commands |-> << >>, has_web_framework |-> FALSE,
     has_server |-> FALSE, has_daemon |-> FALSE]

\* What RepoParser.parse returns, for the repositories tried: one without
\* manifest or sources, a Python command-line tool with and without a
\* description, a JavaScript web plugin and a Rust library with a README.
ParsedRepos(dirname) ==
    LET base == ParseDefaults(dirname)
    IN {[base EXCEPT !.language = "Unknown"],
        [base EXCEPT !.name = "my-tool", !.description = "A handy CLI tool.",
                     !.version = "1.2.3", !.language = "Python",
                     !.dependencies = <<"click>=8", "requests==2.31">>,
                     !.has_bin = TRUE, !.cli_commands = <<"my-tool">>],
        [base EXCEPT !.name = "my-tool", !.version = "1.2.3",
                     !.language = "Python", !.has_bin = TRUE,
                     !.cli_commands = <<"my-tool">>],
        [base EXCEPT !.name = "web-plugin", !.language = "JavaScript",
                     !.dependencies = <<"express", "@types/node">>,
                     !.has_web_framework = TRUE],
        [base EXCEPT !.name = "fast-parser", !.version = "0.3.0",
                     !.description = "A fast parser library.",
                     !.language = "Rust",
                     !.readme_excerpt = "Parser generator. Testing included!",
                     !.features = <<"Zero copy", "Streaming">>]}

\* What client.messages.create does: it raises, or it returns a text.
AiReplies ==
    {[asked |-> TRUE, raises |-> TRUE, text |-> ""]}
        \cup {[asked |-> TRUE, raises |-> FALSE, text |-> t] :
                 t \in {"", "  \n", " Parses fast, with zero copies. \n"}}

\* An enhancer that answers a failure with a text of its own.
_generate_ai_description_Apology(md, reply) ==
    IF reply.raises THEN "Description unavailable."
    ELSE StripChars(reply.text, PyWhitespace)

\* MoltBookGenerator._generate_ai_description, for a generator with a client.
_generate_ai_description(md, reply) ==
    IF reply.raises THEN Get(md, "description", "")
    ELSE StripChars(reply.text, PyWhitespace)

\* A generate that never asks for the cleanup.
cleanup_for_Never(url) == FALSE

\* cleanup: True for a clone, False for a local directory.
cleanup_for(url) == url

\* A directory after generate's finally clause, which removes repo_path when
\* cleanup is set and the path exists; mine says that dir is repo_path.
\* A finally clause that does not look at the cleanup flag.
AfterFinally_Unflagged(dir, mine) ==
    IF mine /\ dir = "exists" THEN "removed" ELSE dir

AfterFinally(dir, mine) ==
    IF cleanup /\ mine /\ dir = "exists" THEN "removed" ELSE dir

Finally ==
    /\ temp_dir' = AfterFinally(temp_dir, is_url(source))
    /\ local_dir' = AfterFinally(local_dir, ~is_url(source))

GenInit ==
    /\ source \in Sources
    /\ tool_type_arg \in {Absent, Present("cli"), Present("github-action")}
    /\ output_format \in {"yaml", "json", "markdown"}
    /\ use_ai \in BOOLEAN
    /\ ai_reply = NoReply
    /\ cleanup = FALSE
    /\ temp_dir = "none"
    /\ local_dir = IF is_url(source) THEN "none"
                   ELSE IF source = "./my-tool" THEN "exists" ELSE "missing"
    /\ metadata = << >>
    /\ tool_type = ""
    /\ keywords = << >>
    /\ author = ""
    /\ license_id = "MIT"
    /\ repository = ""
    /\ clock = 43200
    /\ data = NoData
    /\ result = ""
    /\ pc = "start"
    /\ ncalls = 0
    /\ called = [method |-> "render", format_given |-> TRUE]

\* generate up to the clone: a URL goes to _clone_repo, which needs GitPython
\* and makes the temporary directory; a local path must exist.
Start ==
    /\ pc = "start"
    /\ IF is_url(source)
       THEN \E git_installed \in BOOLEAN :
                IF git_installed
                THEN temp_dir' = "exists" /\ pc' = "cloning"
                ELSE temp_dir' = temp_dir /\ pc' = "raised"
       ELSE /\ temp_dir' = temp_dir
            /\ pc' = IF local_dir = "exists" THEN "parse" ELSE "raised"
    /\ cleanup' = IF is_url(source) THEN cleanup ELSE cleanup_for(FALSE)
    /\ UNCHANGED <<metadata, tool_type, keywords, output_format, author,
                   license_id, repository, clock, data, result, ncalls,
                   source, tool_type_arg, use_ai, ai_reply, local_dir>>
    /\ UNCHANGED called

\* git.Repo.clone_from: on success _clone_repo returns the directory and
\* generate sets cleanup; on failure _clone_repo removes it and raises.
CloneFrom ==
    /\ pc = "cloning"
    /\ \E cloned \in BOOLEAN :
          IF cloned
          THEN temp_dir' = temp_dir /\ cleanup' = cleanup_for(TRUE) /\ pc' = "parse"
          ELSE temp_dir' = "removed" /\ cleanup' = cleanup /\ pc' = "raised"
    /\ UNCHANGED <<metadata, tool_type, keywords, output_format, author,
                   license_id, repository, clock, data, result, ncalls,
                   source, tool_type_arg, use_ai, ai_reply, local_dir>>
    /\ UNCHANGED called

\* parser.parse and the tool type: parse returns a dict or raises, and a
\* tool type that was not given is detected.
Parse ==
    /\ pc = "parse"
    /\ \/ /\ \E md \in ParsedRepos(RepoDirName(source)) :
                /\ metadata' = md
                /\ tool_type' = IF tool_type_arg = Absent
                                THEN _detect_tool_type(md) ELSE tool_type_arg[1]
          /\ pc' = "enhance"
          /\ UNCHANGED <<temp_dir, local_dir>>
       \/ /\ pc' = "raised"
          /\ Finally
          /\ UNCHANGED <<metadata, tool_type>>
    /\ UNCHANGED <<keywords, output_format, author, license_id, repository,
                   clock, data, result, ncalls, source, tool_type_arg, use_ai,
                   ai_reply, cleanup>>
    /\ UNCHANGED called

\* The AI description, when use_ai is set.
Enhance ==
    /\ pc = "enhance"
    /\ IF use_ai
       THEN \E reply \in AiReplies :
                /\ ai_reply' = reply
                /\ metadata' =
                      ("ai_description" :> _generate_ai_description(metadata, reply))
                          @@ metadata
       ELSE metadata' = metadata /\ ai_reply' = ai_reply
    /\ pc' = "render"
    /\ UNCHANGED <<tool_type, keywords, output_format, author, license_id,
                   repository, clock, data, result, ncalls, source,
                   tool_type_arg, use_ai, cleanup, temp_dir, local_dir>>
    /\ UNCHANGED called

\* The keywords, template.render, and the finally clause.
GenRender ==
    /\ pc = "render"
    /\ \E tick \in Ticks :
        LET kws   == _extract_keywords(metadata)
            built == _build_data(metadata, tool_type, kws, author,
                                 license_id, repository, clock, clock + tick)
        IN /\ keywords' = kws
           /\ clock' = clock + tick
           /\ IF built.ok
              THEN /\ data' = built.d
                   /\ result' = render(output_format, built.d)
                   /\ pc' = "returned"
              ELSE /\ data' = data
                   /\ result' = result
                   /\ pc' = "raised"
    /\ Finally
    /\ ncalls' = ncalls + 1
    /\ UNCHANGED <<metadata, tool_type, output_format, author, license_id,
                   repository, source, tool_type_arg, use_ai, ai_reply, cleanup>>
    /\ UNCHANGED called

GenNext == Start \/ CloneFrom \/ Parse \/ Enhance \/ GenRender

GenSpec == GenInit /\ [][GenNext]_vars

\* generate is straight-line code: control does not rest at a statement.
\* Every action of GenNext moves pc and is enabled by its stage alone, so
\* the fairness of GenNext is stated on pc.
GenLiveSpec ==
    GenSpec /\ WF_pc(/\ pc \in {"start", "cloning", "parse", "enhance", "render"}
                      /\ pc' \in {"cloning", "parse", "enhance", "render",
                                  "returned", "raised"}
                      /\ pc' # pc)

-----------------------------------------------------------------------------
(* The claims                                                              *)

\* The key is present in the metadata and its value is not empty.
HasNonEmpty(key) == key \in DOMAIN metadata /\ Len(metadata[key]) > 0

Min(a, b) == IF a < b THEN a ELSE b

\* C1: for every metadata mapping whose fields are absent or of their type,
\* the empty mapping included, and every tool type and keyword list, building
\* the listing does not fail, and the listing has a non-empty description,
\* installation, usage and requirements, at most 10 keywords and at most 5
\* features.
C1_ListingWellFormed ==
    /\ pc # "raised"
    /\ pc = "returned" =>
        /\ data.description # ""
        /\ data.installation # ""
        /\ data.usage # ""
        /\ data.requirements # ""
        /\ Len(data.keywords) <= 10
        /\ Len(data.features) <= 5

\* C1's case: the listing built from the empty mapping for a command-line
\* tool, every field of it a default.
C1_Witness ==
    /\ pc = "returned"
    /\ DOMAIN metadata = {}
    /\ tool_type = "cli"
    /\ data.description = "A Unknown tool."
    /\ data.usage = "tool --help"
    /\ data.keywords = << >>
    /\ data.features = << >>

\* C2: the listing's keywords are the first min(n, 10) keywords of the call
\* and its features the first min(m, 5) features of the metadata, each in the
\* order given, nothing sorted and no duplicate removed.
C2_TruncationKeepsPrefix ==
    pc = "returned" =>
        LET feats == IF "features" \in DOMAIN metadata THEN metadata["features"] ELSE << >>
        IN /\ Len(data.keywords) = Min(Len(keywords), 10)
           /\ \A i \in 1..Len(data.keywords) : data.keywords[i] = keywords[i]
           /\ Len(data.features) = Min(Len(feats), 5)
           /\ \A i \in 1..Len(data.features) : data.features[i] = feats[i]

\* C2's case: more than ten keywords and more than five features, cut to ten
\* and to five.
C2_Witness ==
    /\ pc = "returned"
    /\ Len(keywords) > 10
    /\ "features" \in DOMAIN metadata
    /\ Len(metadata["features"]) > 5
    /\ Len(data.keywords) = 10
    /\ Len(data.features) = 5

\* C3: the listing's description is ai_description when that is present and
\* not empty, else description when that is present and not empty, else
\* "A {language} tool." with the listing's language.
C3_DescriptionResolution ==
    pc = "returned" =>
        data.description =
            IF HasNonEmpty("ai_description") THEN metadata["ai_description"]
            ELSE IF HasNonEmpty("description") THEN metadata["description"]
            ELSE "A " \o data.language \o " tool."

\* C3's case: an empty ai_description and no description give the synthesized
\* string.
C3_Witness ==
    /\ pc = "returned"
    /\ "ai_description" \in DOMAIN metadata
    /\ metadata["ai_description"] = ""
    /\ "description" \notin DOMAIN metadata
    /\ data.description = "A Rust tool."

\* C4: the installation string follows the first rule that matches, in this
\* order: github-action, python, javascript or typescript (global for a cli,
\* local for every other tool type), rust, go, the fallback comment.
C4_InstallationRuleOrder ==
    pc = "returned" =>
        LET lang == Lower(data.language)
            ga   == tool_type = "github-action"
            py   == Contains("python", lang)
            js   == Contains("javascript", lang) \/ Contains("typescript", lang)
            rs   == Contains("rust", lang)
            go   == Contains("go", lang)
            repo == IF "repository" \in DOMAIN metadata
                    THEN metadata["repository"] ELSE "owner/repo"
        IN /\ ga => data.installation = "uses: " \o repo \o "@v1"
           /\ ~ga /\ py => data.installation = "pip install " \o data.name
           /\ ~ga /\ ~py /\ js /\ tool_type = "cli" =>
                  data.installation = "npm install -g " \o data.name
           /\ ~ga /\ ~py /\ js /\ tool_type # "cli" =>
                  data.installation = "npm install " \o data.name
           /\ ~ga /\ ~py /\ ~js /\ rs =>
                  data.installation = "cargo install " \o data.name
           /\ ~ga /\ ~py /\ ~js /\ ~rs /\ go =>
                  data.installation = "go install github.com/" \o data.name \o "@latest"
           /\ ~ga /\ ~py /\ ~js /\ ~rs /\ ~go =>
                  data.installation = "# See documentation for installation instructions"

\* C4's case: a JavaScript library, installed without -g.
C4_Witness ==
    /\ pc = "returned"
    /\ tool_type = "library"
    /\ data.language = "JavaScript"
    /\ data.installation = "npm install my-tool"

\* C5: for a cli or an mcp-server, usage is the first entry of a non-empty
\* cli_commands followed by " --help", and otherwise the listing's own name
\* followed by " --help", also when the name is the default.
C5_UsageHelpNamesTheListing ==
    pc = "returned" /\ tool_type \in {"cli", "mcp-server"} =>
        data.usage =
            IF HasNonEmpty("cli_commands")
            THEN metadata["cli_commands"][1] \o " --help"
            ELSE data.name \o " --help"

\* The text up to its first line break.
FirstLine(text) ==
    LET stop == CHOOSE j \in 1..(Len(text) + 1) :
                    /\ j = Len(text) + 1 \/ CharAt(text, j) = "\n"
                    /\ \A k \in 1..(j - 1) : CharAt(text, k) # "\n"
    IN SubSeq(text, 1, stop - 1)

\* C6, as claimed: the first line of the markdown output is exactly
\* "# {name} v{version}" and nothing else.
C6_HeadingIsNameSpaceVVersion ==
    pc = "returned" /\ output_format = "markdown" =>
        FirstLine(result) = "# " \o data.name \o " v" \o data.version

\* C6, amended: for a name and a version that hold no line break, the first
\* line of the markdown output is exactly "# {name} " followed by the version
\* with its v, set between two grave accents.
C6_HeadingQuotesTheVersion ==
    pc = "returned" /\ output_format = "markdown"
        /\ ~Contains("\n", data.name) /\ ~Contains("\n", data.version) =>
        FirstLine(result)
            = "# " \o data.name \o " " \o Backtick \o "v" \o data.version \o Backtick

\* C6's case: name "my-tool", version "1.2.3".
C6_Witness ==
    /\ pc = "returned"
    /\ output_format = "markdown"
    /\ data.name = "my-tool"
    /\ data.version = "1.2.3"
    /\ FirstLine(result) = "# my-tool " \o Backtick \o "v1.2.3" \o Backtick

C8_OverrideElseMetadataElseDefault ==
    pc = "returned" =>
        /\ data.author =
              IF author # "" THEN author
              ELSE IF HasNonEmpty("author") THEN metadata["author"] ELSE "Unknown"
        /\ data.license =
              IF license_id # "" THEN license_id
              ELSE IF HasNonEmpty("license") THEN metadata["license"] ELSE "MIT"
        /\ data.repository =
              IF repository # "" THEN repository
              ELSE IF HasNonEmpty("repository") THEN metadata["repository"] ELSE ""

\* C9: a name, version or language that is absent or empty is replaced by
\* "unknown-tool", "0.1.0" and "Unknown"; no listing has an empty name,
\* version or language.
C9_EmptyFieldsAreDefaulted ==
    pc = "returned" =>
        /\ ~HasNonEmpty("name") => data.name = "unknown-tool"
        /\ ~HasNonEmpty("version") => data.version = "0.1.0"
        /\ ~HasNonEmpty("language") => data.language = "Unknown"
        /\ data.name # ""
        /\ data.version # ""
        /\ data.language # ""

\* C10: for every output_format other than "json" and "markdown", render
\* raises nothing and returns the text of the yaml rendering of the same
\* inputs at the same clock readings.
C10_UnknownFormatIsYaml ==
    /\ pc # "raised"
    /\ pc = "returned" /\ output_format \notin {"json", "markdown"} =>
           result = Join("\n", yaml_lines(data)) \o "\n"

\* C10's case: the format "xml", answered with the yaml document.
C10_Witness ==
    /\ pc = "returned"
    /\ output_format = "xml"
    /\ SubSeq(result, 1, 18) = "# MoltBook Listing"

InstallFallback == "# See documentation for installation instructions"
UsageFallback == "# See documentation for usage examples"

\* C11, as stated: for every tool type outside TOOL_TYPES rendering succeeds
\* and, for every language, the installation and the usage are both the
\* generic fallback texts.
C11_UnknownToolTypeIsGeneric ==
    /\ pc # "raised"
    /\ pc = "returned" /\ tool_type \notin TOOL_TYPES =>
           /\ data.installation = InstallFallback
           /\ data.usage = UsageFallback

\* C11, amended: for every tool type outside TOOL_TYPES rendering succeeds
\* and the usage is the generic fallback for every language, while the
\* installation is still the one the language selects (npm without -g), the
\* generic fallback only for a language that selects none.
C11_UnknownToolTypeKeepsLanguageInstall ==
    /\ pc # "raised"
    /\ pc = "returned" /\ tool_type \notin TOOL_TYPES =>
           LET lang == Lower(data.language)
               py   == Contains("python", lang)
               js   == Contains("javascript", lang) \/ Contains("typescript", lang)
               rs   == Contains("rust", lang)
               go   == Contains("go", lang)
           IN /\ data.usage = UsageFallback
              /\ data.installation =
                    IF py THEN "pip install " \o data.name
                    ELSE IF js THEN "npm install " \o data.name
                    ELSE IF rs THEN "cargo install " \o data.name
                    ELSE IF go THEN "go install github.com/" \o data.name \o "@latest"
                    ELSE InstallFallback

\* C11's case: a Python tool of the type "desktop-app".
C11_Witness ==
    /\ pc = "returned"
    /\ tool_type = "desktop-app"
    /\ data.language = "Python"
    /\ data.name = "my-tool"
    /\ data.installation = "pip install my-tool"
    /\ data.usage = UsageFallback

RequirementsFallback == "See repository for requirements"

\* C12: installation and requirements recognise the language by the same
\* rule, a substring match without regard to case: requirements is the
\* fallback exactly when the language holds none of the keys, and it is a
\* key's minimum-version string exactly when installation gives that key's
\* command.
C12_SameLanguageRule ==
    pc = "returned" =>
        LET lang == Lower(data.language)
            none == /\ ~Contains("python", lang)
                    /\ ~Contains("javascript", lang)
                    /\ ~Contains("typescript", lang)
                    /\ ~Contains("rust", lang)
                    /\ ~Contains("go", lang)
        IN /\ none <=> data.requirements = RequirementsFallback
           /\ tool_type # "github-action" =>
                 /\ data.installation = "pip install " \o data.name
                        <=> data.requirements = "Python >= 3.9"
                 /\ data.installation \in {"npm install -g " \o data.name,
                                           "npm install " \o data.name}
                        <=> data.requirements = "Node.js >= 18"
                 /\ data.installation = "cargo install " \o data.name
                        <=> data.requirements = "Rust >= 1.70"
                 /\ data.installation
                            = "go install github.com/" \o data.name \o "@latest"
                        <=> data.requirements = "Go >= 1.21"

\* A line of the text starts with the prefix.
HasLine(text, prefix) ==
    \E i \in 1..Len(text) :
        /\ i = 1 \/ CharAt(text, i - 1) = "\n"
        /\ i + Len(prefix) - 1 <= Len(text)
        /\ SubSeq(text, i, i + Len(prefix) - 1) = prefix

\* The keys every yaml listing holds.
YamlFixedKeys ==
    {"name", "version", "type", "language", "author", "license", "status",
     "last_updated", "keywords", "description", "features", "installation",
     "usage", "requirements"}

IsYamlCall == output_format \notin {"json", "markdown"}

\* C13: in the yaml output the repository line is there exactly when the
\* listing's repository is not empty, the homepage line exactly when the
\* homepage is not empty, every other key is there for every listing, and an
\* empty keywords or features sequence is its key followed by the marker [].
C13_YamlKeyPresence ==
    pc = "returned" /\ IsYamlCall =>
        /\ HasLine(result, "repository:") <=> data.repository # ""
        /\ HasLine(result, "homepage:") <=> data.homepage # ""
        /\ data.repository # "" =>
               HasLine(result, "repository: \"" \o data.repository \o "\"\n")
        /\ data.homepage # "" =>
               HasLine(result, "homepage: \"" \o data.homepage \o "\"\n")
        /\ \A k \in YamlFixedKeys : HasLine(result, k \o ":")
        /\ data.keywords = << >> => HasLine(result, "keywords:\n  []\n")
        /\ data.features = << >> => HasLine(result, "features:\n  []\n")

\* C13's case: a listing without repository, homepage, keywords and
\* features, written as yaml.
C13_Witness ==
    /\ pc = "returned"
    /\ output_format = "yaml"
    /\ data.repository = ""
    /\ data.homepage = ""
    /\ data.keywords = << >>
    /\ data.features = << >>
    /\ ~HasLine(result, "repository:")
    /\ ~HasLine(result, "homepage:")
    /\ HasLine(result, "features:\n  []\n")

\* C14: in the yaml output a description without a line break is a
\* double-quoted scalar with every double quote escaped by a backslash, and a
\* description with line breaks is a block literal whose lines are the
\* description's own lines, unchanged, each indented by two spaces.
C14_YamlDescriptionPreserved ==
    pc = "returned" /\ IsYamlCall =>
        IF Contains("\n", data.description)
        THEN HasLine(result, "description: |\n  "
                                \o Replace(data.description, "\n", "\n  ") \o "\n")
        ELSE HasLine(result, "description: \""
                                \o Replace(data.description, "\"", "\\\"") \o "\"\n")

NoFeaturesPlaceholder == "_No features listed._"

\* C15: in the markdown output the Features section, the text between the
\* Features heading and the Requirements heading, is the placeholder alone
\* when the listing has no feature, and otherwise one "- " bullet per
\* feature, in order, and no placeholder.
C15_MarkdownFeaturesSection ==
    pc = "returned" /\ output_format = "markdown" =>
        LET n       == Len(data.features)
            section == IF n = 0 THEN NoFeaturesPlaceholder
                       ELSE Join("\n", [i \in 1..n |-> "- " \o data.features[i]])
        IN /\ HasLine(result, "## Features\n\n" \o section \o "\n\n## Requirements\n")
           /\ n > 0 => ~Contains(NoFeaturesPlaceholder, result)

\* C15's case: a listing without features, written as markdown.
C15_Witness ==
    /\ pc = "returned"
    /\ output_format = "markdown"
    /\ data.features = << >>
    /\ HasLine(result, NoFeaturesPlaceholder \o "\n")

-----------------------------------------------------------------------------
(* Reading a double-quoted scalar of the yaml output back, for scalars      *)
(* without an empty line: the scalar ends at the first quote that is not    *)
(* escaped, an escape gives the character it stands for, and a line break   *)
(* with the blanks around it is folded into one space.                      *)

YamlBlank == {" ", "\t"}

\* Place k comes after a line break and blanks only.
RECURSIVE AfterBreak(_, _, _)
AfterBreak(s, k, lo) ==
    /\ k > lo
    /\ \/ At(s, k - 1) = "\n"
       \/ At(s, k - 1) \in YamlBlank /\ AfterBreak(s, k - 1, lo)

\* Place k comes before blanks only and a line break.
RECURSIVE BeforeBreak(_, _, _)
BeforeBreak(s, k, hi) ==
    /\ k < hi
    /\ \/ At(s, k + 1) = "\n"
       \/ At(s, k + 1) \in YamlBlank /\ BeforeBreak(s, k + 1, hi)

\* The characters that places from..to of the scalar at lo..hi stand for.
RECURSIVE YamlDecodeRange(_, _, _, _, _)
YamlDecodeRange(s, lo, hi, from, to) ==
    IF from > to THEN ""
    ELSE IF from = to
    THEN LET c == At(s, from)
         IN IF IsEscaped(s, from, lo) THEN JsonUnescapeChar(c)
            ELSE IF IsIntroducer(s, from, lo) THEN ""
            ELSE IF c = "\n" THEN " "
            ELSE IF c \in YamlBlank
                      /\ (AfterBreak(s, from, lo) \/ BeforeBreak(s, from, hi))
            THEN ""
            ELSE c
    ELSE LET mid == (from + to) \div 2
         IN YamlDecodeRange(s, lo, hi, from, mid)
                \o YamlDecodeRange(s, lo, hi, mid + 1, to)

\* The value of the double-quoted scalar of a top-level key of the yaml
\* text: [ok, v], ok = FALSE when the key has no such scalar or text other
\* than a line break follows its closing quote.
YamlQuoted(text, key) ==
    LET prefix == key \o ": \""
        starts == {i \in 1..Len(text) :
                      /\ i = 1 \/ CharAt(text, i - 1) = "\n"
                      /\ i + Len(prefix) - 1 <= Len(text)
                      /\ SubSeq(text, i, i + Len(prefix) - 1) = prefix}
    IN IF starts = {} THEN [ok |-> FALSE, v |-> ""]
       ELSE LET lo    == (CHOOSE i \in starts : \A j \in starts : i <= j) + Len(prefix)
                close == ClosingQuote(text, lo)
            IN IF close > Len(text) \/ At(text, close + 1) \notin {"\n", ""}
               THEN [ok |-> FALSE, v |-> ""]
               ELSE [ok |-> TRUE,
                     v  |-> YamlDecodeRange(text, lo, close - 1, lo, close - 1)]

\* The items of a sequence, one per line, each after the mark.
Listed(mark, items) == Join("\n", [i \in 1..Len(items) |-> mark \o items[i]])

\* C16: the three emitters, given the same listing, encode the same values:
\* the name, version, type, language, author, license, keywords, features,
\* installation, usage and requirements read from the json text are the ones
\* the yaml text holds (plain scalars, sequence items and double-quoted
\* scalars) and the ones the markdown text shows.
C16_EmittersAgree ==
    pc = "returned" =>
        LET y      == _render_yaml(data)
            md     == _render_markdown(data)
            parsed == JsonLoads(_render_json(data))
            j      == parsed.obj
            fence  == Fence \o "bash\n"
        IN /\ parsed.ok
           /\ \A k \in {"name", "version", "type", "language", "author", "license"} :
                  HasLine(y, k \o ": " \o j[k] \o "\n")
           /\ \A k \in {"installation", "usage", "requirements"} :
                  YamlQuoted(y, k) = [ok |-> TRUE, v |-> j[k]]
           /\ \A k \in {"keywords", "features"} :
                  j[k] # << >> =>
                      HasLine(y, k \o ":\n" \o Listed("  - ", j[k]) \o "\n")
           /\ HasLine(md, "# " \o j["name"] \o " " \o Backtick \o "v"
                              \o j["version"] \o Backtick \o "\n")
           /\ HasLine(md, "**Type:** " \o j["type"] \o " &nbsp;|&nbsp; **Language:** "
                              \o j["language"] \o " &nbsp;|&nbsp; **License:** "
                              \o j["license"] \o "\n")
           /\ HasLine(md, "**Keywords:** " \o Join(" ", Badges(j["keywords"])) \o "\n")
           /\ HasLine(md, "## Installation\n\n" \o fence \o j["installation"]
                              \o "\n" \o Fence \o "\n")
           /\ HasLine(md, "## Usage\n\n" \o fence \o j["usage"] \o "\n" \o Fence \o "\n")
           /\ j["features"] # << >> =>
                  HasLine(md, "## Features\n\n" \o Listed("- ", j["features"]) \o "\n")
           /\ HasLine(md, "## Requirements\n\n- " \o j["requirements"] \o "\n")
           /\ HasLine(md, "**Author:** " \o j["author"] \o "  \n")

\* The call that has returned gave what the same call gives alone, at the
\* same two clock readings.
SameAsAlone ==
    pc = "returned" =>
        \E tick \in Ticks :
            /\ tick <= clock
            /\ LET alone == _build_data(metadata, tool_type, keywords, author,
                                        license_id, repository, clock - tick, clock)
               IN /\ alone.ok
                  /\ data = alone.d
                  /\ result = render(output_format, alone.d)

\* A render call leaves the arguments it was passed as they were.
ArgumentsKept ==
    pc = "ready" =>
        /\ metadata' = metadata
        /\ keywords' = keywords
        /\ <<tool_type, output_format, author, license_id, repository>>'
              = <<tool_type, output_format, author, license_id, repository>>

LineCount(text) == 1 + Cardinality({i \in 1..Len(text) : CharAt(text, i) = "\n"})

\* The usage the claim C20 gives a library and the tool types without a
\* usage of their own, for the name that _build_usage reads.
LibraryOrFallbackUsage ==
    LET lang == Lower(data.language)
        name == Get(metadata, "name", "tool")
        mod  == Replace(name, "-", "_")
    IN IF tool_type # "library" THEN UsageFallback
       ELSE IF Contains("python", lang)
       THEN "from " \o mod \o " import " \o Title(mod)
       ELSE IF Contains("javascript", lang) \/ Contains("typescript", lang)
       THEN "import { " \o name \o " } from '" \o name \o "';"
       ELSE IF Contains("rust", lang) THEN "use " \o mod \o "::*;"
       ELSE UsageFallback

Ended == pc \in {"returned", "raised"}

C18_AiNeverBlocks ==
    /\ pc = "raised" => metadata = << >>
    /\ pc = "returned" /\ source # ""
          /\ (~use_ai \/ ai_reply.raises
                 \/ StripChars(ai_reply.text, PyWhitespace) = "") =>
           data.description =
               IF metadata["description"] # "" THEN metadata["description"]
               ELSE "A " \o data.language \o " tool."

\* C18's case: the enhancer's call raised for a repository without a
\* description.
C18_Witness ==
    /\ pc = "returned"
    /\ use_ai
    /\ ai_reply.raises
    /\ metadata["description"] = ""
    /\ data.description = "A Python tool."

\* C22: in every listing the last_updated date stamp is the date part of the
\* generated_at date-time stamp, whenever the listing is built, the clock
\* moving between the two readings included.
C22_StampsAgree ==
    pc = "returned" => data.last_updated = SubSeq(data.generated_at, 1, 10)

\* C23: generate leaves a local source directory as it was on every path,
\* and the only directory it ever removes is the temporary one its own clone
\* made.
C23_LocalSourceUntouched ==
    /\ [][local_dir' = local_dir]_vars
    /\ [][temp_dir' # temp_dir /\ temp_dir' = "removed" =>
              is_url(source) /\ temp_dir = "exists"]_vars

\* C23's case: generate has returned the listing of a local directory, and
\* the directory is there.
C23_Witness ==
    /\ pc = "returned"
    /\ ~is_url(source)
    /\ local_dir = "exists"
    /\ result # ""

\* C24: for a github-action the installation names the listing's repository:
\* "uses: {repository}@v1" when the listing's repository is not empty, and
\* the placeholder "owner/repo" exactly when it is empty.
C24_InstallationNamesListingRepository ==
    pc = "returned" /\ tool_type = "github-action" =>
        data.installation =
            "uses: " \o (IF data.repository # "" THEN data.repository
                         ELSE "owner/repo") \o "@v1"

\* C21: render_full_listing is an alias of render.  For every metadata, tool
\* type, keywords, author, license, repository and output format, at the same
\* clock readings, it returns the string render returns for those arguments,
\* and without output_format it returns the yaml rendering.
C21_AliasOfRender ==
    called.method = "render_full_listing" =>
        /\ pc # "raised"
        /\ pc = "returned" =>
              \E tick \in Ticks :
                  /\ tick <= clock
                  /\ LET alone == _build_data(metadata, tool_type, keywords,
                                              author, license_id, repository,
                                              clock - tick, clock)
                     IN /\ alone.ok
                        /\ data = alone.d
                        /\ result = IF called.format_given
                                    THEN render(output_format, alone.d)
                                    ELSE _render_yaml(alone.d)

\* C21's case: the alias, called without output_format and with an author, a
\* license and a repository of the caller, has returned.
C21_Witness ==
    /\ pc = "returned"
    /\ called = [method |-> "render_full_listing", format_given |-> FALSE]
    /\ author = "Bob"
    /\ license_id = "Apache-2.0"
    /\ repository = "bob/fork"
    /\ data.author = "Bob"

=============================================================================
